---------------------------- MODULE Spec2Model ----------------------------
(***************************************************************************)
(* Model of the UnifiedQueryEditor backend: the warehouse router           *)
(* (server/route/snowflake.js) and the cluster router (the Kubernetes/EKS  *)
(* route file).  One HTTP request is followed from its arrival to its      *)
(* response; the asynchronous handlers are cut at their awaits, and the    *)
(* driver, the orchestration client and the kubectl child process are the  *)
(* environment that settles the awaited promises.  The editor              *)
(* (src/MonacoEditor.tsx) is modelled by the state of its App component    *)
(* and its test-connection requests in flight.                             *)
(*                                                                         *)
(* JavaScript strings are TLA+ strings (TLC evaluates Len, SubSeq and \o   *)
(* on them), so trimming, splitting, upper-casing and the regular          *)
(* expressions are computed character by character as the code does.       *)
(***************************************************************************)
EXTENDS Integers, Sequences, FiniteSets, TLC

(***************************************************************************)
(* Bounds of the model.                                                    *)
(***************************************************************************)
MaxItems == 2
MaxChunks == 2

(***************************************************************************)
(* JavaScript values.                                                      *)
(***************************************************************************)
Undef == [t |-> "undefined"]
Num(n) == [t |-> "number", n |-> n]
Str(s) == [t |-> "string", s |-> s]
Arr(a) == [t |-> "array", a |-> a]
\* An object is the sequence of its own enumerable <<key, value>> pairs in
\* insertion order, which is the order Object.keys returns.
Obj(e) == [t |-> "object", e |-> e]

\* ToBoolean of a JavaScript value.
Truthy(v) ==
  CASE v.t = "undefined" -> FALSE
    [] v.t = "number" -> v.n # 0
    [] v.t = "string" -> v.s # ""
    [] OTHER -> TRUE

\* a || b
OrElse(a, b) == IF Truthy(a) THEN a ELSE b

ObjectKeys(o) == [i \in 1..Len(o.e) |-> o.e[i][1]]

HasKey(o, k) == \E i \in 1..Len(o.e) : o.e[i][1] = k

\* o[k] for an object o: the value of the property, or undefined.
Get(o, k) ==
  IF o.t = "object" /\ HasKey(o, k)
  THEN o.e[CHOOSE i \in 1..Len(o.e) : o.e[i][1] = k][2]
  ELSE Undef

\* v?.[k]
OptGet(v, k) == IF v.t = "undefined" THEN Undef ELSE Get(v, k)

(***************************************************************************)
(* JavaScript string functions.                                            *)
(***************************************************************************)
CharAt(s, i) == SubSeq(s, i, i)

LowerLetters == "abcdefghijklmnopqrstuvwxyz"
UpperLetters == "ABCDEFGHIJKLMNOPQRSTUVWXYZ"

UpperOf == [c \in {CharAt(LowerLetters, i) : i \in 1..Len(LowerLetters)} |->
              CharAt(UpperLetters, CHOOSE i \in 1..Len(LowerLetters) : CharAt(LowerLetters, i) = c)]

UpperChar(c) == IF c \in DOMAIN UpperOf THEN UpperOf[c] ELSE c

RECURSIVE toUpperCase(_)
toUpperCase(s) ==
  IF Len(s) <= 1 THEN UpperChar(s)
  ELSE toUpperCase(SubSeq(s, 1, Len(s) \div 2))
         \o toUpperCase(SubSeq(s, (Len(s) \div 2) + 1, Len(s)))

\* The characters \s matches and trim() removes (those that occur here).
IsWhiteSpace(c) == c \in {" ", "\t", "\n", "\r", "\f"}

\* The characters the regular expression "." does not match.
IsLineTerminator(c) == c \in {"\n", "\r"}

RECURSIVE trimStart(_)
trimStart(s) ==
  IF s # "" /\ IsWhiteSpace(Head(s)) THEN trimStart(Tail(s)) ELSE s

RECURSIVE trimEnd(_)
trimEnd(s) ==
  IF s # "" /\ IsWhiteSpace(CharAt(s, Len(s)))
  THEN trimEnd(SubSeq(s, 1, Len(s) - 1))
  ELSE s

trim(s) == trimEnd(trimStart(s))

startsWith(s, p) == Len(s) >= Len(p) /\ SubSeq(s, 1, Len(p)) = p

EchoLimit == 200

\* substring0 that does not cut the text.
substringWhole(s, n) == s

\* s.substring(0, n)
substring0(s, n) == IF Len(s) <= n THEN s ELSE SubSeq(s, 1, n)


Min(S) == CHOOSE x \in S : \A y \in S : x <= y

\* s.split(sep) for a string separator.
RECURSIVE splitString(_, _)
splitString(s, sep) ==
  LET at == { i \in 1..(Len(s) - Len(sep) + 1) : SubSeq(s, i, i + Len(sep) - 1) = sep }
  IN  IF at = {}
      THEN << s >>
      ELSE << SubSeq(s, 1, Min(at) - 1) >>
             \o splitString(SubSeq(s, Min(at) + Len(sep), Len(s)), sep)

\* The end of the longest run of whitespace that starts at i.
WhiteSpaceRunEnd(s, i) ==
  CHOOSE j \in i..Len(s) :
    /\ \A k \in i..j : IsWhiteSpace(CharAt(s, k))
    /\ j = Len(s) \/ ~IsWhiteSpace(CharAt(s, j + 1))

\* s.split(/\s+/)
RECURSIVE splitWhiteSpace(_)
splitWhiteSpace(s) ==
  LET at == { i \in 1..Len(s) : IsWhiteSpace(CharAt(s, i)) }
  IN  IF at = {}
      THEN << s >>
      ELSE << SubSeq(s, 1, Min(at) - 1) >>
             \o splitWhiteSpace(SubSeq(s, WhiteSpaceRunEnd(s, Min(at)) + 1, Len(s)))

\* The end of the longest run of letters s that starts at i.
LetterSRunEnd(s, i) ==
  CHOOSE j \in i..Len(s) :
    /\ \A k \in i..j : CharAt(s, k) = "s"
    /\ j = Len(s) \/ CharAt(s, j + 1) # "s"

\* s.split(/\\s+/): the regular expression of the source text, a backslash
\* followed by one or more letters s.
RECURSIVE splitBackslashS(_)
splitBackslashS(s) ==
  LET at == { i \in 1..(Len(s) - 1) : CharAt(s, i) = "\\" /\ CharAt(s, i + 1) = "s" }
  IN  IF at = {}
      THEN << s >>
      ELSE << SubSeq(s, 1, Min(at) - 1) >>
             \o splitBackslashS(SubSeq(s, LetterSRunEnd(s, Min(at) + 1) + 1, Len(s)))

\* a.join(sep)
RECURSIVE join(_, _)
join(a, sep) ==
  IF a = <<>> THEN ""
  ELSE IF Len(a) = 1 THEN a[1] ELSE a[1] \o sep \o join(Tail(a), sep)

Digits == "0123456789"

\* String(n) for a natural number n.
RECURSIVE NumberToString(_)
NumberToString(n) ==
  IF n < Len(Digits) THEN CharAt(Digits, n + 1)
  ELSE NumberToString(n \div Len(Digits)) \o CharAt(Digits, (n % Len(Digits)) + 1)

\* `${v}` for a string or a number v.
ToText(v) == IF v.t = "number" THEN NumberToString(v.n) ELSE IF v.t = "string" THEN v.s ELSE v.t

(***************************************************************************)
(* Regular expressions, as the sets of positions a match can end at.  A    *)
(* position p stands for "the next character to read is CharAt(s, p)".     *)
(***************************************************************************)
Positions(s) == 1..(Len(s) + 1)

\* ReLit without the i flag.
ReLitCaseSensitive(s, P, lit) ==
  { p + Len(lit) : p \in { x \in P : /\ x + Len(lit) - 1 <= Len(s)
                                    /\ SubSeq(s, x, x + Len(lit) - 1) = lit } }

\* A literal under the i flag.
ReLit(s, P, lit) ==
  { p + Len(lit) : p \in { x \in P : /\ x + Len(lit) - 1 <= Len(s)
                                    /\ toUpperCase(SubSeq(s, x, x + Len(lit) - 1))
                                         = toUpperCase(lit) } }

\* \s*
ReWsStar(s, P) ==
  { j \in Positions(s) :
      \E p \in P : p <= j /\ \A k \in p..(j - 1) : IsWhiteSpace(CharAt(s, k)) }

\* \s+
ReWsPlus(s, P) ==
  ReWsStar(s, { p + 1 : p \in { x \in P : x <= Len(s) /\ IsWhiteSpace(CharAt(s, x)) } })

\* .*
ReDotStar(s, P) ==
  { j \in Positions(s) :
      \E p \in P : p <= j /\ \A k \in p..(j - 1) : ~IsLineTerminator(CharAt(s, k)) }

\* /drop\s+table/i
reDropTable(s) ==
  ReLit(s, ReWsPlus(s, ReLit(s, Positions(s), "drop")), "table") # {}

\* /drop\s+database/i
reDropDatabase(s) ==
  ReLit(s, ReWsPlus(s, ReLit(s, Positions(s), "drop")), "database") # {}

\* /delete\s+from.*where\s*1\s*=\s*1/i
reDeleteWhereTrue(s) ==
  LET p1 == ReLit(s, ReWsPlus(s, ReLit(s, Positions(s), "delete")), "from")
      p2 == ReLit(s, ReDotStar(s, p1), "where")
      p3 == ReLit(s, ReWsStar(s, p2), "1")
      p4 == ReLit(s, ReWsStar(s, p3), "=")
  IN  ReLit(s, ReWsStar(s, p4), "1") # {}

\* /union.*select/i
reUnionSelect(s) ==
  ReLit(s, ReDotStar(s, ReLit(s, Positions(s), "union")), "select") # {}

\* suspiciousPatterns.some(pattern => pattern.test(query))
isSuspicious(s) ==
  reDropTable(s) \/ reDropDatabase(s) \/ reDeleteWhereTrue(s) \/ reUnionSelect(s)

\* !(!query || typeof query !== 'string')
isQueryString(q) == Truthy(q) /\ q.t = "string"

(***************************************************************************)
(* The requests and the backend behaviours the model draws from.           *)
(***************************************************************************)
WarehouseHeads == {"", "drop", "Drop", "delete from t", "SELECT 1 union", "select 1"}
WarehouseGaps  == {"", " ", " \t ", "\n", " x "}
WarehouseTails == {"", "table t", "DATABASE d", "where 1=1", "where 1 = 1", "select 2"}

WarehouseExamples ==
  { "DROP TABLE users", "SELECT * FROM x UNION SELECT * FROM y",
    "DELETE FROM accounts WHERE 1=1", "SELECT * FROM orders" }

RECURSIVE Repeat(_, _)
Repeat(s, n) ==
  IF n = 0 THEN ""
  ELSE Repeat(s, n \div 2) \o Repeat(s, n \div 2) \o (IF n % 2 = 1 THEN s ELSE "")

\* A text of n characters that starts with head.
LongText(head, n) == head \o Repeat("x", n - Len(head))

\* Statements one character shorter than the echoed prefix, as long, and longer.
LongWarehouseQueries ==
  { Str(LongText("SELECT 1 -- ", n)) : n \in {EchoLimit - 1, EchoLimit, EchoLimit + 1} }
    \cup { Str(LongText("DROP TABLE users -- ", EchoLimit + 1)) }

WarehouseQueries ==
  { Str(h \o g \o t) : h \in WarehouseHeads, g \in WarehouseGaps, t \in WarehouseTails }
    \cup { Str(s) : s \in WarehouseExamples }
    \cup LongWarehouseQueries
    \cup { Undef, Num(7) }

SeqsUpTo(S, n) == UNION { [1..k -> S] : k \in 0..n }

ConnectErrors == { "Incorrect username or password was specified." }

\* The milliseconds createConnection takes to settle, and those a statement,
\* a kubectl process or a list call takes.
ConnectDelays == {0, 40}
BackendDelays == {0, 7}
StatementErrors == { "SQL compilation error: syntax error line 1" }

\* What the driver hands to the complete callback of a successful statement:
\* the statement (its id and column descriptions) and the rows, which the
\* driver leaves undefined for a statement that returns none.
StatementShapes ==
  { [ columns |-> << [name |-> "VERSION", type |-> "text", nullable |-> FALSE] >>,
      samples |-> { Obj(<< <<"VERSION", Str("8.1.0")>> >>) } ],
    [ columns |-> << [name |-> "ID", type |-> "fixed", nullable |-> FALSE],
                     [name |-> "NAME", type |-> "text", nullable |-> TRUE] >>,
      samples |-> { Obj(<< <<"ID", Num(0)>>, <<"NAME", Str("")>> >>),
                    Obj(<< <<"ID", Num(7)>>, <<"NAME", Str("ann")>> >>) } ] }

StatementOutcomes ==
  UNION { { [id |-> "01b2-0000", columns |-> sh.columns, rows |-> r] :
              r \in {Undef} \cup { Arr(x) : x \in SeqsUpTo(sh.samples, MaxItems) } } :
          sh \in StatementShapes }

(***************************************************************************)
(* The warehouse router.                                                   *)
(***************************************************************************)
WarehouseRoutes == {"wh/execute", "wh/test-connection", "wh/schemas", "wh/tables"}

TestConnectionSql ==
  "SELECT CURRENT_VERSION() as VERSION, CURRENT_USER() as USER, CURRENT_DATABASE() as DATABASE"
SchemasSql == "SELECT ... FROM INFORMATION_SCHEMA.SCHEMATA ORDER BY DATABASE_NAME, SCHEMA_NAME"
TablesSql == "SELECT ... FROM INFORMATION_SCHEMA.TABLES WHERE TABLE_SCHEMA = CURRENT_SCHEMA() ORDER BY TABLE_NAME"

\* The statement each warehouse route executes on its connection.
RouteSql(r, q) ==
  CASE r = "wh/execute" -> q.s
    [] r = "wh/test-connection" -> TestConnectionSql
    [] r = "wh/schemas" -> SchemasSql
    [] r = "wh/tables" -> TablesSql

\* The error category of each warehouse route's catch block.
RouteErrorCategory(r) ==
  CASE r = "wh/execute" -> "Query execution failed"
    [] r = "wh/test-connection" -> "Connection failed"
    [] r = "wh/schemas" -> "Failed to fetch schemas"
    [] r = "wh/tables" -> "Failed to fetch tables"

\* The value executeQuery resolves with.
executeQueryResult(o) ==
  [ columns |-> [i \in 1..Len(o.columns) |-> o.columns[i].name],
    columnMetadata |-> o.columns,
    rows |-> IF Truthy(o.rows) THEN o.rows.a ELSE <<>>,
    rowCount |-> IF Truthy(o.rows) THEN Len(o.rows.a) ELSE 0,
    executionTime |-> o.id ]

InvalidQueryResponse ==
  [ status |-> 400,
    body |-> [ success |-> FALSE, error |-> "Invalid query",
               message |-> "Query must be a non-empty string" ] ]

QueryBlockedResponse ==
  [ status |-> 400,
    body |-> [ success |-> FALSE, error |-> "Query blocked",
               message |-> "Query contains potentially dangerous operations" ] ]

\* `${executionTime}ms`
Milliseconds(n) == NumberToString(n) \o "ms"

\* res.json(...) of the try block of each warehouse route, executionTime being
\* Date.now() - startTime.
WarehouseSuccessResponse(r, q, result, executionTime) ==
  [ status |-> 200,
    body |-> CASE r = "wh/execute" ->
                    [ success |-> TRUE, data |-> result,
                      executionTime |-> Milliseconds(executionTime),
                      query |-> substring0(q.s, EchoLimit) ]
               [] r = "wh/test-connection" ->
                    [ success |-> TRUE, message |-> "Successfully connected to Snowflake",
                      data |-> result ]
               [] OTHER -> [ success |-> TRUE, data |-> result ] ]

\* res.status(500).json(...) of the catch block of each warehouse route.
WarehouseCatchResponse(r, q, msg) ==
  [ status |-> 500,
    body |-> IF r = "wh/execute"
             THEN [ success |-> FALSE, error |-> RouteErrorCategory(r), message |-> msg,
                    query |-> substring0(q.s, EchoLimit) ]
             ELSE [ success |-> FALSE, error |-> RouteErrorCategory(r), message |-> msg ] ]

\* WarehouseFinally with the test of the connection inverted.
WarehouseFinallyInverted(conn) ==
  IF conn = "null" THEN << [op |-> "destroy"] >> ELSE <<>>

\* The finally block: the calls it makes, given the handler's connection.
WarehouseFinally(conn) ==
  IF conn # "null" THEN << [op |-> "destroy"] >> ELSE <<>>

\* The handler's connection variable as the finally block leaves the handle.
AfterFinally(conn) == IF conn # "null" THEN "destroyed" ELSE conn

(***************************************************************************)
(* The cluster router: what the requests and the backends are drawn from.  *)
(***************************************************************************)
KubectlVerbs == { "get", "describe", "logs", "top", "explain", "api-resources",
                  "api-versions", "cluster-info", "delete", "GET", "getx", "exec" }
KubectlArgs  == {"", " pods\t-A "}

KubectlQueries ==
  { Str(v \o a) : v \in KubectlVerbs, a \in KubectlArgs }
    \cup { Str("  get nodes"), Str("\tdelete pod web-1"), Str("get\nnodes") }

SqlPads == {"", " ", "\n\t"}
SqlCores ==
  { "SELECT * FROM PODS", "select * from pods", "Select * From Nodes",
    "select * from deployments", "SELECT * FROM services", "SELECT * FROM NODES",
    "SELECT name FROM PODS", "SELECT  * FROM PODS", "SELECT * FROM POD",
    "select * from secrets" }
SqlTails == {"", " WHERE ns = 'x'", "\n"}

SqlQueries ==
  { Str(p \o c \o t) : p \in SqlPads, c \in SqlCores, t \in SqlTails }

\* Commands and statements as long as the echoed prefix and longer.
LongClusterQueries ==
  { Str(LongText("get pods -l app=", n)) : n \in {EchoLimit, EchoLimit + 1} }
    \cup { Str(LongText("delete pod ", EchoLimit + 1)),
           Str(LongText("SELECT * FROM PODS WHERE name = ", EchoLimit + 1)) }

ClusterQueries ==
  KubectlQueries \cup SqlQueries \cup LongClusterQueries
    \cup { Undef, Num(7), Str(""), Str(" "), Str("\n \t") }

\* queryType as the request body carries it; undefined takes the default.
QueryTypes == { Undef, Str("kubectl"), Str("sql"), Str("yaml") }

\* The bodies of the requests to the cluster /execute route.
ClusterRequests ==
  { [query |-> q, queryType |-> qt] : q \in ClusterQueries, qt \in QueryTypes \ {Undef} }
    \cup { [query |-> q, queryType |-> Undef] :
             q \in { Str("get pods"), Str("delete pod web-1"), Str("SELECT * FROM PODS"),
                     Str(""), Str(" "), Undef } }

KubeInitErrors == { "ENOENT: no such file or directory, open '/root/.kube/config'" }
ListErrors == { "connect ECONNREFUSED 127.0.0.1:6443" }
SpawnErrors == { "spawn kubectl ENOENT" }
ExitCodes == { 0, 1 }

StdoutChunks ==
  { "NAME STATUS\n", "node-1 Ready\n", "ok", "{}", "[]" }
StderrChunks == { "Error from server (NotFound)" }

Meta(name) ==
  Obj(<< <<"name", Str(name)>>, <<"namespace", Str("default")>>,
         <<"creationTimestamp", Str("2024-05-01T10:00:00Z")>> >>)

PodSamples ==
  { Obj(<< <<"metadata", Meta("web-1")>>,
           <<"status", Obj(<< <<"phase", Str("Running")>>,
                              <<"containerStatuses",
                                Arr(<< Obj(<< <<"restartCount", Num(3)>> >>) >>)>> >>)>> >>),
    Obj(<< <<"metadata", Meta("web-2")>>,
           <<"status", Obj(<< <<"phase", Str("Running")>>,
                              <<"containerStatuses",
                                Arr(<< Obj(<< <<"restartCount", Num(0)>> >>) >>)>> >>)>> >>),
    Obj(<< <<"metadata", Meta("job-1")>>,
           <<"status", Obj(<< <<"phase", Str("Pending")>> >>)>> >>),
    Obj(<< <<"metadata", Meta("ghost")>> >>) }

DeploymentSamples ==
  { Obj(<< <<"metadata", Meta("api")>>,
           <<"status", Obj(<< <<"replicas", Num(2)>>, <<"readyReplicas", Num(1)>>,
                              <<"availableReplicas", Num(1)>> >>)>> >>),
    Obj(<< <<"metadata", Meta("idle")>>, <<"status", Obj(<<>>)>> >>),
    Obj(<< <<"metadata", Meta("new")>> >>) }

Port(port, target, protocol) ==
  Obj(<< <<"port", Num(port)>>, <<"targetPort", Num(target)>>, <<"protocol", Str(protocol)>> >>)

ServiceSamples ==
  { Obj(<< <<"metadata", Meta("web")>>,
           <<"spec", Obj(<< <<"type", Str("ClusterIP")>>, <<"clusterIP", Str("10.0.0.7")>>,
                            <<"ports", Arr(<< Port(80, 8080, "TCP"), Port(443, 8443, "TCP") >>)>> >>)>> >>),
    Obj(<< <<"metadata", Meta("ext")>>,
           <<"spec", Obj(<< <<"type", Str("ExternalName")>> >>)>> >>),
    Obj(<< <<"metadata", Meta("bare")>> >>) }

NodeInfo ==
  Obj(<< <<"kubeletVersion", Str("v1.29.0")>>, <<"osImage", Str("Amazon Linux 2")>>,
         <<"architecture", Str("amd64")>> >>)

Condition(type, status) == Obj(<< <<"type", Str(type)>>, <<"status", Str(status)>> >>)

NodeSamples ==
  { Obj(<< <<"metadata", Meta("node-1")>>,
           <<"status", Obj(<< <<"conditions", Arr(<< Condition("MemoryPressure", "False"),
                                                    Condition("Ready", "True") >>)>>,
                              <<"nodeInfo", NodeInfo>> >>)>> >>),
    Obj(<< <<"metadata", Meta("node-2")>>,
           <<"status", Obj(<< <<"conditions", Arr(<< Condition("MemoryPressure", "False") >>)>>,
                              <<"nodeInfo", NodeInfo>> >>)>> >>),
    Obj(<< <<"metadata", Meta("node-3")>>,
           <<"status", Obj(<< <<"nodeInfo", NodeInfo>> >>)>> >>),
    Obj(<< <<"metadata", Meta("node-4")>>,
           <<"status", Obj(<< <<"conditions", Arr(<< Condition("Ready", "True") >>)>> >>)>> >>) }

\* The items a list call of the orchestration client can return.
ListItems(call) ==
  CASE call = "listPodForAllNamespaces" -> SeqsUpTo(PodSamples, MaxItems)
    [] call = "listDeploymentForAllNamespaces" -> SeqsUpTo(DeploymentSamples, MaxItems)
    [] call = "listServiceForAllNamespaces" -> SeqsUpTo(ServiceSamples, MaxItems)
    [] call = "listNode" -> SeqsUpTo(NodeSamples, MaxItems)

ListCalls ==
  { "listPodForAllNamespaces", "listDeploymentForAllNamespaces",
    "listServiceForAllNamespaces", "listNode" }

(***************************************************************************)
(* The cluster router: its functions.                                      *)
(***************************************************************************)
\* allowedCommands with a verb that changes the cluster.
allowedCommandsWithDelete ==
  << "get", "describe", "logs", "top", "explain",
     "api-resources", "api-versions", "cluster-info", "delete" >>

allowedCommands ==
  << "get", "describe", "logs", "top", "explain",
     "api-resources", "api-versions", "cluster-info" >>

\* a.includes(x)
includes(a, x) == \E i \in 1..Len(a) : a[i] = x

\* query.trim().split(/\s+/)
kubectlArgs(q) == splitWhiteSpace(trim(q))

\* What a function returns or throws.
Returned(v) == [ok |-> TRUE, v |-> v]
Thrown(msg) == [ok |-> FALSE, msg |-> msg]

TypeErrorMessage(prop) ==
  "Cannot read properties of undefined (reading '" \o prop \o "')"

\* JSON.parse, on the texts the kubectl process of this model can print that
\* start with a brace or a bracket: "{}" and "[]" are the only well-formed ones.
JSONParse(text) ==
  CASE text = "{}" -> Returned(Obj(<<>>))
    [] text = "[]" -> Returned(Arr(<<>>))
    [] OTHER -> Thrown("Unexpected token in JSON")

JSONValue(v) ==
  CASE v.t = "string" -> "\"" \o v.s \o "\""
    [] v.t = "number" -> NumberToString(v.n)
    [] OTHER -> "null"

\* JSON.stringify(o, null, 2) for an object of strings and numbers.
JSONStringify(o) ==
  IF o.e = <<>> THEN "{}"
  ELSE "{\n"
         \o join([i \in 1..Len(o.e) |-> "  \"" \o o.e[i][1] \o "\": " \o JSONValue(o.e[i][2])],
                 ",\n")
         \o "\n}"

\* What the promise of executeKubectl settles with when the process closes.
kubectlOnClose(code, out, err) ==
  IF code = 0
  THEN LET result == trim(out)
       IN  IF startsWith(result, "{") \/ startsWith(result, "[")
           THEN IF JSONParse(result).ok
                THEN Returned(JSONParse(result).v)
                ELSE Returned(Str(trim(out)))
           ELSE Returned(Str(result))
  ELSE Thrown("kubectl command failed: " \o (IF err # "" THEN err ELSE out))

\* What the promise of executeKubectl settles with on the error event.
kubectlOnError(msg) == Thrown("Failed to execute kubectl: " \o msg)

\* listCallFor without the upper-casing.
listCallForCaseSensitive(sqlQuery) ==
  LET upperQuery == trim(sqlQuery)
  IN  IF startsWith(upperQuery, "SELECT * FROM PODS") THEN "listPodForAllNamespaces"
      ELSE IF startsWith(upperQuery, "SELECT * FROM DEPLOYMENTS")
           THEN "listDeploymentForAllNamespaces"
      ELSE IF startsWith(upperQuery, "SELECT * FROM SERVICES")
           THEN "listServiceForAllNamespaces"
      ELSE IF startsWith(upperQuery, "SELECT * FROM NODES") THEN "listNode"
      ELSE "unsupported"

\* The list call executeSQLLikeQuery picks for a statement, if any.
listCallFor(sqlQuery) ==
  LET upperQuery == trim(toUpperCase(sqlQuery))
  IN  IF startsWith(upperQuery, "SELECT * FROM PODS") THEN "listPodForAllNamespaces"
      ELSE IF startsWith(upperQuery, "SELECT * FROM DEPLOYMENTS")
           THEN "listDeploymentForAllNamespaces"
      ELSE IF startsWith(upperQuery, "SELECT * FROM SERVICES")
           THEN "listServiceForAllNamespaces"
      ELSE IF startsWith(upperQuery, "SELECT * FROM NODES") THEN "listNode"
      ELSE "unsupported"

UnsupportedMessage ==
  "Unsupported SQL query. Try: SELECT * FROM PODS|DEPLOYMENTS|SERVICES|NODES"

\* a?.[0]
OptFirst(a) ==
  IF a.t = "array" /\ Len(a.a) >= 1 THEN a.a[1] ELSE Undef

\* pod => ({ name, namespace, status, created, restarts })
projectPod(pod) ==
  LET metadata == Get(pod, "metadata")
      status == Get(pod, "status")
  IN  IF metadata.t = "undefined" THEN Thrown(TypeErrorMessage("name"))
      ELSE IF status.t = "undefined" THEN Thrown(TypeErrorMessage("phase"))
      ELSE Returned(Obj(<<
             <<"name", Get(metadata, "name")>>,
             <<"namespace", Get(metadata, "namespace")>>,
             <<"status", Get(status, "phase")>>,
             <<"created", Get(metadata, "creationTimestamp")>>,
             <<"restarts",
               OrElse(OptGet(OptFirst(Get(status, "containerStatuses")), "restartCount"),
                      Num(0))>> >>))

\* deployment => ({ name, namespace, replicas, ready, available, created })
projectDeployment(deployment) ==
  LET metadata == Get(deployment, "metadata")
      status == Get(deployment, "status")
  IN  IF metadata.t = "undefined" THEN Thrown(TypeErrorMessage("name"))
      ELSE IF status.t = "undefined" THEN Thrown(TypeErrorMessage("replicas"))
      ELSE Returned(Obj(<<
             <<"name", Get(metadata, "name")>>,
             <<"namespace", Get(metadata, "namespace")>>,
             <<"replicas", OrElse(Get(status, "replicas"), Num(0))>>,
             <<"ready", OrElse(Get(status, "readyReplicas"), Num(0))>>,
             <<"available", OrElse(Get(status, "availableReplicas"), Num(0))>>,
             <<"created", Get(metadata, "creationTimestamp")>> >>))

\* p => `${p.port}:${p.targetPort}/${p.protocol}`
portText(p) ==
  ToText(Get(p, "port")) \o ":" \o ToText(Get(p, "targetPort")) \o "/"
    \o ToText(Get(p, "protocol"))

\* service => ({ name, namespace, type, clusterIP, ports })
projectService(service) ==
  LET metadata == Get(service, "metadata")
      spec == Get(service, "spec")
      ports == Get(spec, "ports")
      joined == IF ports.t = "undefined" THEN Undef
                ELSE Str(join([i \in 1..Len(ports.a) |-> portText(ports.a[i])], ", "))
  IN  IF metadata.t = "undefined" THEN Thrown(TypeErrorMessage("name"))
      ELSE IF spec.t = "undefined" THEN Thrown(TypeErrorMessage("type"))
      ELSE Returned(Obj(<<
             <<"name", Get(metadata, "name")>>,
             <<"namespace", Get(metadata, "namespace")>>,
             <<"type", Get(spec, "type")>>,
             <<"clusterIP", Get(spec, "clusterIP")>>,
             <<"ports", OrElse(joined, Str("N/A"))>> >>))

\* a.find(c => c.type === 'Ready')
findReady(a) ==
  LET at == { i \in 1..Len(a) : Get(a[i], "type") = Str("Ready") }
  IN  IF at = {} THEN Undef ELSE a[Min(at)]

\* node => ({ name, status, version, os, arch, created })
projectNode(node) ==
  LET metadata == Get(node, "metadata")
      status == Get(node, "status")
      conditions == Get(status, "conditions")
      nodeInfo == Get(status, "nodeInfo")
  IN  IF metadata.t = "undefined" THEN Thrown(TypeErrorMessage("name"))
      ELSE IF status.t = "undefined" THEN Thrown(TypeErrorMessage("conditions"))
      ELSE IF conditions.t = "undefined" THEN Thrown(TypeErrorMessage("find"))
      ELSE IF nodeInfo.t = "undefined" THEN Thrown(TypeErrorMessage("kubeletVersion"))
      ELSE Returned(Obj(<<
             <<"name", Get(metadata, "name")>>,
             <<"status", OrElse(OptGet(findReady(conditions.a), "status"), Str("Unknown"))>>,
             <<"version", Get(nodeInfo, "kubeletVersion")>>,
             <<"os", Get(nodeInfo, "osImage")>>,
             <<"arch", Get(nodeInfo, "architecture")>>,
             <<"created", Get(metadata, "creationTimestamp")>> >>))

projectItem(call, item) ==
  CASE call = "listPodForAllNamespaces" -> projectPod(item)
    [] call = "listDeploymentForAllNamespaces" -> projectDeployment(item)
    [] call = "listServiceForAllNamespaces" -> projectService(item)
    [] call = "listNode" -> projectNode(item)

\* response.body.items.map(...): the array of projected objects, or the
\* TypeError of the first item whose projection throws.
projectItems(call, items) ==
  LET bad == { i \in 1..Len(items) : ~projectItem(call, items[i]).ok }
  IN  IF bad = {}
      THEN Returned(Arr([i \in 1..Len(items) |-> projectItem(call, items[i]).v]))
      ELSE Thrown(projectItem(call, items[Min(bad)]).msg)

IsNonBlank(line) == trim(line) # ""
IsNonEmpty(cell) == cell # ""

\* formatKubernetesResult, the branch for a string.
formatText(result) ==
  LET lines == SelectSeq(splitString(result, "\\n"), IsNonBlank)
  IN  IF Len(lines) > 1
      THEN LET headers == SelectSeq(splitBackslashS(lines[1]), IsNonEmpty)
               rows == [i \in 1..(Len(lines) - 1) |->
                          LET cells == SelectSeq(splitBackslashS(lines[i + 1]), IsNonEmpty)
                          IN  [j \in 1..Len(cells) |-> Str(cells[j])]]
           IN  [columns |-> headers, rows |-> rows, rowCount |-> Len(rows)]
      ELSE [message |-> result, rowCount |-> 0]

\* formatArray that drops the empty cells, as the branch for a string does.
formatArrayDropEmpty(result) ==
  IF Len(result) = 0
  THEN [message |-> "No results found", rowCount |-> 0]
  ELSE LET columns == ObjectKeys(result[1])
           rows == [i \in 1..Len(result) |->
                      SelectSeq([j \in 1..Len(columns) |-> Get(result[i], columns[j])], Truthy)]
       IN  [columns |-> columns, rows |-> rows, rowCount |-> Len(rows)]

\* formatKubernetesResult, the branch for an array.
formatArray(result) ==
  IF Len(result) = 0
  THEN [message |-> "No results found", rowCount |-> 0]
  ELSE LET columns == ObjectKeys(result[1])
           rows == [i \in 1..Len(result) |->
                      [j \in 1..Len(columns) |-> OrElse(Get(result[i], columns[j]), Str(""))]]
       IN  [columns |-> columns, rows |-> rows, rowCount |-> Len(rows)]

\* formatKubernetesResult, the branch for any other value.
formatObject(result) ==
  [message |-> JSONStringify(result), rowCount |-> 1]

formatKubernetesResult(result) ==
  IF result.t = "string" THEN formatText(result.s)
  ELSE IF result.t = "array" THEN formatArray(result.a)
  ELSE formatObject(result)

\* const { queryType = 'kubectl' } = req.body
effectiveQueryType(qt) == IF qt.t = "undefined" THEN Str("kubectl") ELSE qt

CommandNotAllowedResponse ==
  [ status |-> 400,
    body |-> [ success |-> FALSE, error |-> "Command not allowed",
               message |-> "Only these commands are allowed: " \o join(allowedCommands, ", ") ] ]

\* res.json(...) at the end of the try block of the cluster /execute route,
\* executionTime being Date.now() - startTime.
ClusterSuccessResponse(q, qt, result, executionTime) ==
  [ status |-> 200,
    body |-> [ success |-> TRUE, data |-> formatKubernetesResult(result),
               executionTime |-> Milliseconds(executionTime),
               query |-> substring0(q.s, EchoLimit), queryType |-> effectiveQueryType(qt) ] ]

\* ClusterCatchResponse that reads a property the error does not have.
ClusterCatchResponseNoMessage(q, msg) ==
  [ status |-> 500,
    body |-> [ success |-> FALSE, error |-> "Query execution failed",
               query |-> substring0(q.s, EchoLimit) ] ]

\* res.status(500).json(...) of the catch block of the cluster /execute route.
ClusterCatchResponse(q, msg) ==
  [ status |-> 500,
    body |-> [ success |-> FALSE, error |-> "Query execution failed", message |-> msg,
               query |-> substring0(q.s, EchoLimit) ] ]

\* The response once the awaited result has been returned or thrown.
ClusterOutcomeResponse(q, qt, outcome, executionTime) ==
  IF outcome.ok
  THEN ClusterSuccessResponse(q, qt, outcome.v, executionTime)
  ELSE ClusterCatchResponse(q, outcome.msg)

(***************************************************************************)
(* Inputs of the result normalizer taken on its own.                       *)
(***************************************************************************)
FormatValues == { Num(0), Num(5), Str("x") }

FormatObjects ==
  { Obj(<<>>) }
    \cup { Obj(<< <<k, v>> >>) : k \in {"a", "b"}, v \in FormatValues }
    \cup { Obj(<< <<ks[1], v1>>, <<ks[2], v2>> >>) :
             ks \in { <<"a", "b">>, <<"b", "a">> }, v1 \in FormatValues, v2 \in FormatValues }

FormatTexts ==
  { "", "ok", " \n ", "NAME AGE\nweb 5d", "NAME AGE\nweb 5d\napi 2h\n",
    "a\\nb", "NAME\\sAGE\\nweb\\ss5d\\n" }

NativeResults ==
  { Str(text) : text \in FormatTexts }
    \cup { Arr(a) : a \in SeqsUpTo(FormatObjects, MaxItems) }
    \cup { o \in FormatObjects : Len(o.e) <= 1 }

(***************************************************************************)
(* The editor: the state of the App component and its test-connection      *)
(* requests.                                                               *)
(***************************************************************************)
MaxFetches == 2

Null == [t |-> "null"]

ConnectionTypes == {"snowflake", "eks"}

sampleQueries ==
  [ snowflake |->
      [ sql |-> "-- Snowflake SQL Query\nSELECT CURRENT_VERSION(), CURRENT_USER(), CURRENT_DATABASE();\n\n-- Example queries:\n-- SELECT * FROM INFORMATION_SCHEMA.TABLES LIMIT 10;\n-- SELECT COUNT(*) FROM your_table_name;" ],
    eks |->
      [ sql |-> "-- Kubernetes SQL-like Queries\nSELECT * FROM PODS;\n\n-- Available tables:\n-- SELECT * FROM NODES\n-- SELECT * FROM DEPLOYMENTS\n-- SELECT * FROM SERVICES",
        kubectl |-> "get pods --all-namespaces\n\n# Other kubectl commands:\n# get nodes\n# get deployments\n# get services\n# describe pod <pod-name>\n# logs <pod-name>" ] ]

\* The useState initial values of App.
AppInit ==
  [ query |-> "-- SQL Editor\nSELECT * FROM users WHERE id = 1;",
    results |-> Null,
    isExecuting |-> FALSE,
    error |-> Null,
    connectionType |-> "snowflake",
    queryType |-> "sql",
    connectionStatus |-> "disconnected" ]

\* const endpoint = connectionType === 'snowflake' ? ... : ...
testEndpoint(connectionType) ==
  IF connectionType = "snowflake"
  THEN "/api/snowflake/test-connection"
  ELSE "/api/eks/test-connection"

Endpoints == { testEndpoint(c) : c \in ConnectionTypes }

\* What the driver hands back for the statement of the warehouse probe.
ProbeOutcome ==
  [ id |-> "01b2-0001",
    columns |-> << [name |-> "VERSION", type |-> "text", nullable |-> FALSE],
                   [name |-> "USER", type |-> "text", nullable |-> FALSE],
                   [name |-> "DATABASE", type |-> "text", nullable |-> TRUE] >>,
    rows |-> Arr(<< Obj(<< <<"VERSION", Str("8.1.0")>>, <<"USER", Str("ANN")>>,
                           <<"DATABASE", Str("DEMO")>> >>) >>) ]

\* The nodes the cluster probe lists: nodes that carry every projected field.
ProbeNodes ==
  { nodes \in SeqsUpTo(NodeSamples, 1) :
      \A i \in 1..Len(nodes) : projectNode(nodes[i]).ok }

\* node => ({ name, status, version, os }) of the cluster /test-connection route.
probeNode(node) ==
  LET status == Get(node, "status")
  IN  Obj(<< <<"name", Get(Get(node, "metadata"), "name")>>,
             <<"status", OrElse(OptGet(findReady(Get(status, "conditions").a), "status"),
                                Str("Unknown"))>>,
             <<"version", Get(Get(status, "nodeInfo"), "kubeletVersion")>>,
             <<"os", Get(Get(status, "nodeInfo"), "osImage")>> >>)

\* res.json(...) of the try block of the cluster /test-connection route.
ClusterTestSuccessBody(nodes) ==
  [ success |-> TRUE, message |-> "Successfully connected to EKS cluster",
    data |-> [ nodeCount |-> Len(nodes),
               nodes |-> [i \in 1..Len(nodes) |-> probeNode(nodes[i])] ] ]

\* res.status(500).json(...) of the catch block of the cluster /test-connection route.
ClusterTestFailureBody(msg) ==
  [ success |-> FALSE, error |-> "EKS connection failed", message |-> msg ]

\* The bodies the /test-connection route behind an endpoint answers with.
TestConnectionBodies(endpoint) ==
  IF endpoint = testEndpoint("snowflake")
  THEN { WarehouseSuccessResponse("wh/test-connection", Undef,
                                  executeQueryResult(ProbeOutcome), 0).body }
         \cup { WarehouseCatchResponse("wh/test-connection", Undef, msg).body :
                  msg \in ConnectErrors \cup StatementErrors }
  ELSE { ClusterTestSuccessBody(nodes) : nodes \in ProbeNodes }
         \cup { ClusterTestFailureBody(msg) : msg \in KubeInitErrors \cup ListErrors }

AllTestConnectionBodies == UNION { TestConnectionBodies(e) : e \in Endpoints }

\* The messages of the errors fetch or response.json() rejects with.
FetchErrors == { "Failed to fetch", "" }

VARIABLES route, query, queryType, pc, connection, calls, responses,
          proc, stdout, stderr, dataEvents, listed, native, envelope,
          now, startTime, app, fetches

vars == <<route, query, queryType, pc, connection, calls, responses,
          proc, stdout, stderr, dataEvents, listed, native, envelope,
          now, startTime, app, fetches>>

request == <<route, query, queryType>>
warehouse == <<connection>>
kubectl == <<proc, stdout, stderr, dataEvents>>
normalizer == <<native, envelope>>
clock == <<now, startTime>>
ui == <<app, fetches>>

\* No request has arrived.
Idle ==
  /\ route = "none"
  /\ query = Undef
  /\ queryType = Undef
  /\ pc = "idle"
  /\ connection = "null"
  /\ calls = <<>>
  /\ responses = <<>>
  /\ proc = "none"
  /\ stdout = ""
  /\ stderr = ""
  /\ dataEvents = 0
  /\ listed = <<>>
  /\ now = 0
  /\ startTime = 0

\* The editor as it is mounted, with no request in flight.
Mounted ==
  /\ app = AppInit
  /\ fetches = [e \in Endpoints |-> 0]

Init ==
  /\ Idle
  /\ Mounted
  /\ native = Undef
  /\ envelope = <<>>

\* res.json(...): the response is sent and the handler returns or runs to its end.
Respond(r) ==
  /\ responses' = Append(responses, r)
  /\ pc' = "done"

\* router.post('/execute') of the warehouse router, up to its first await.
WarehouseExecute(q) ==
  /\ pc = "idle"
  /\ UNCHANGED ui
  /\ route' = "wh/execute"
  /\ query' = q
  /\ UNCHANGED <<queryType, warehouse, kubectl, listed, normalizer, now>>
  /\ IF ~isQueryString(q)
     THEN Respond(InvalidQueryResponse) /\ UNCHANGED <<calls, startTime>>
     ELSE IF isSuspicious(q.s)
          THEN Respond(QueryBlockedResponse) /\ UNCHANGED <<calls, startTime>>
          ELSE /\ startTime' = now
               /\ calls' = Append(calls, [op |-> "createConnection"])
               /\ pc' = "connecting"
               /\ UNCHANGED responses

\* router.get('/test-connection' | '/schemas' | '/tables'), up to the first await.
WarehouseGet(r) ==
  /\ pc = "idle"
  /\ UNCHANGED ui
  /\ route' = r
  /\ calls' = Append(calls, [op |-> "createConnection"])
  /\ pc' = "connecting"
  /\ UNCHANGED <<query, queryType, warehouse, kubectl, listed, normalizer, responses, clock>>

\* connection.connect calls back without an error, delay milliseconds after
\* it was called: createConnection resolves, the handler keeps the connection
\* and calls executeQuery, at the time the call records.
ConnectResolved(delay) ==
  /\ pc = "connecting"
  /\ UNCHANGED ui
  /\ now' = now + delay
  /\ connection' = "open"
  /\ calls' = Append(calls, [op |-> "execute", sqlText |-> RouteSql(route, query),
                             at |-> now'])
  /\ pc' = "executing"
  /\ UNCHANGED <<request, kubectl, listed, normalizer, responses, startTime>>

\* connection.connect calls back with an error: createConnection rejects and
\* the handler runs its catch and finally blocks.
ConnectRejected(msg, delay) ==
  /\ pc = "connecting"
  /\ UNCHANGED ui
  /\ now' = now + delay
  /\ Respond(WarehouseCatchResponse(route, query, msg))
  /\ calls' = calls \o WarehouseFinally(connection)
  /\ connection' = AfterFinally(connection)
  /\ UNCHANGED <<request, kubectl, listed, normalizer, startTime>>

\* The complete callback without an error, delay milliseconds after the
\* statement was submitted: executeQuery resolves, the handler reads the clock,
\* answers and runs its finally block.
ExecuteResolved(o, delay) ==
  /\ pc = "executing"
  /\ UNCHANGED ui
  /\ now' = now + delay
  /\ Respond(WarehouseSuccessResponse(route, query, executeQueryResult(o),
                                      now' - startTime))
  /\ calls' = calls \o WarehouseFinally(connection)
  /\ connection' = AfterFinally(connection)
  /\ UNCHANGED <<request, kubectl, listed, normalizer, startTime>>

\* The complete callback with an error: executeQuery rejects and the handler
\* runs its catch and finally blocks.
ExecuteRejected(msg, delay) ==
  /\ pc = "executing"
  /\ UNCHANGED ui
  /\ now' = now + delay
  /\ Respond(WarehouseCatchResponse(route, query, msg))
  /\ calls' = calls \o WarehouseFinally(connection)
  /\ connection' = AfterFinally(connection)
  /\ UNCHANGED <<request, kubectl, listed, normalizer, startTime>>

\* The kubectl branch of the cluster /execute route, up to its await.
ClusterKubectl(q) ==
  LET args == kubectlArgs(q.s)
      command == args[1]
  IN  IF ~includes(allowedCommands, command)
      THEN Respond(CommandNotAllowedResponse) /\ UNCHANGED <<calls, proc>>
      ELSE /\ calls' = Append(calls, [op |-> "spawn", argv |-> args])
           /\ proc' = "running"
           /\ pc' = "spawned"
           /\ UNCHANGED responses

\* The sql branch of the cluster /execute route: executeSQLLikeQuery up to
\* its await, with init what initializeKubeClient does ("ok", or the message
\* of the error it throws).
ClusterSql(q, init) ==
  LET made == Append(calls, [op |-> "initializeKubeClient"])
  IN  /\ UNCHANGED proc
      /\ IF init # "ok"
         THEN Respond(ClusterCatchResponse(q, init)) /\ calls' = made
         ELSE IF listCallFor(q.s) = "unsupported"
              THEN Respond(ClusterCatchResponse(q, UnsupportedMessage)) /\ calls' = made
              ELSE /\ calls' = Append(made, [op |-> listCallFor(q.s)])
                   /\ pc' = "listing"
                   /\ UNCHANGED responses

InvalidQueryTypeMessage == "Invalid query type. Use \"kubectl\" or \"sql\""

\* router.post('/execute') of the cluster router, up to its first await.
ClusterExecute(req, init) ==
  /\ pc = "idle"
  /\ UNCHANGED ui
  /\ route' = "k8s/execute"
  /\ query' = req.query
  /\ queryType' = req.queryType
  /\ UNCHANGED <<warehouse, stdout, stderr, dataEvents, listed, normalizer, now>>
  /\ startTime' = IF isQueryString(req.query) THEN now ELSE startTime
  /\ IF ~isQueryString(req.query)
     THEN Respond(InvalidQueryResponse) /\ UNCHANGED <<calls, proc>>
     ELSE IF effectiveQueryType(req.queryType) = Str("kubectl")
          THEN ClusterKubectl(req.query)
          ELSE IF effectiveQueryType(req.queryType) = Str("sql")
               THEN ClusterSql(req.query, init)
               ELSE /\ Respond(ClusterCatchResponse(req.query, InvalidQueryTypeMessage))
                    /\ UNCHANGED <<calls, proc>>

\* kubectl.stdout.on('data')
KubectlStdout(chunk) ==
  /\ proc = "running"
  /\ UNCHANGED ui
  /\ dataEvents < MaxChunks
  /\ stdout' = stdout \o chunk
  /\ dataEvents' = dataEvents + 1
  /\ UNCHANGED <<request, pc, warehouse, calls, responses, proc, stderr, listed, normalizer,
                 clock>>

\* kubectl.stderr.on('data')
KubectlStderr(chunk) ==
  /\ proc = "running"
  /\ UNCHANGED ui
  /\ dataEvents < MaxChunks
  /\ stderr' = stderr \o chunk
  /\ dataEvents' = dataEvents + 1
  /\ UNCHANGED <<request, pc, warehouse, calls, responses, proc, stdout, listed, normalizer,
                 clock>>

\* A promise settles once: the handler awaiting executeKubectl continues with
\* the first outcome, and a later resolve or reject changes nothing.
SettleKubectl(outcome) ==
  IF pc = "spawned"
  THEN Respond(ClusterOutcomeResponse(query, queryType, outcome, now' - startTime))
  ELSE UNCHANGED <<pc, responses>>

\* kubectl.on('error'): the process could not be spawned.
KubectlError(msg, delay) ==
  /\ proc = "running"
  /\ UNCHANGED ui
  /\ stdout = "" /\ stderr = ""
  /\ now' = now + delay
  /\ proc' = "errored"
  /\ SettleKubectl(kubectlOnError(msg))
  /\ UNCHANGED <<request, warehouse, calls, stdout, stderr, dataEvents, listed, normalizer,
                 startTime>>

\* kubectl.on('close'): after the process has exited, or after the error
\* event of a process that could not be spawned (with a non-zero code).
KubectlClose(code, delay) ==
  /\ proc \in {"running", "errored"}
  /\ UNCHANGED ui
  /\ proc = "errored" => code # 0
  /\ now' = now + delay
  /\ proc' = "closed"
  /\ SettleKubectl(kubectlOnClose(code, stdout, stderr))
  /\ UNCHANGED <<request, warehouse, calls, stdout, stderr, dataEvents, listed, normalizer,
                 startTime>>

\* The list call resolves with response.body.items = items: the items are
\* projected and the handler answers.
ListResolved(items, delay) ==
  /\ pc = "listing"
  /\ UNCHANGED ui
  /\ items \in ListItems(calls[Len(calls)].op)
  /\ now' = now + delay
  /\ listed' = << items >>
  /\ Respond(ClusterOutcomeResponse(query, queryType,
                                    projectItems(calls[Len(calls)].op, items),
                                    now' - startTime))
  /\ UNCHANGED <<request, warehouse, kubectl, calls, normalizer, startTime>>

\* The list call rejects: the handler's catch block answers.
ListRejected(msg, delay) ==
  /\ pc = "listing"
  /\ UNCHANGED ui
  /\ now' = now + delay
  /\ Respond(ClusterCatchResponse(query, msg))
  /\ UNCHANGED <<request, warehouse, kubectl, calls, listed, normalizer, startTime>>

AllListItems == UNION { ListItems(c) : c \in ListCalls }

Next ==
  \/ \E q \in WarehouseQueries : WarehouseExecute(q)
  \/ \E r \in WarehouseRoutes \ {"wh/execute"} : WarehouseGet(r)
  \/ \E delay \in ConnectDelays : ConnectResolved(delay)
  \/ \E msg \in ConnectErrors, delay \in ConnectDelays : ConnectRejected(msg, delay)
  \/ \E o \in StatementOutcomes, delay \in BackendDelays : ExecuteResolved(o, delay)
  \/ \E msg \in StatementErrors, delay \in BackendDelays : ExecuteRejected(msg, delay)
  \/ \E req \in ClusterRequests, init \in {"ok"} \cup KubeInitErrors : ClusterExecute(req, init)
  \/ \E chunk \in StdoutChunks : KubectlStdout(chunk)
  \/ \E chunk \in StderrChunks : KubectlStderr(chunk)
  \/ \E msg \in SpawnErrors, delay \in BackendDelays : KubectlError(msg, delay)
  \/ \E code \in ExitCodes, delay \in BackendDelays : KubectlClose(code, delay)
  \/ \E items \in AllListItems, delay \in BackendDelays : ListResolved(items, delay)
  \/ \E msg \in ListErrors, delay \in BackendDelays : ListRejected(msg, delay)

Spec == Init /\ [][Next]_vars

(***************************************************************************)
(* The result normalizer on its own: formatKubernetesResult applied to a   *)
(* native result.                                                          *)
(***************************************************************************)
FormatInit ==
  /\ Idle
  /\ Mounted
  /\ native \in NativeResults
  /\ envelope = <<>>

Normalize ==
  /\ envelope = <<>>
  /\ UNCHANGED ui
  /\ envelope' = << formatKubernetesResult(native) >>
  /\ UNCHANGED <<request, pc, warehouse, calls, responses, kubectl, listed, native, clock>>

FormatNext == Normalize

FormatSpec == FormatInit /\ [][FormatNext]_vars

(***************************************************************************)
(* The editor: testConnection, the arrival of its responses and            *)
(* handleConnectionTypeChange, in any interleaving.                        *)
(***************************************************************************)
server == <<route, query, queryType, pc, connection, calls, responses,
            proc, stdout, stderr, dataEvents, listed, native, envelope, now, startTime>>

InFlight == fetches[testEndpoint("snowflake")] + fetches[testEndpoint("eks")]

\* testConnection up to its first await; the button that calls it is disabled
\* while connectionStatus is 'connecting'.
testConnection ==
  /\ app.connectionStatus # "connecting"
  /\ InFlight < MaxFetches
  /\ app' = [app EXCEPT !.connectionStatus = "connecting", !.error = Null]
  /\ fetches' = [fetches EXCEPT ![testEndpoint(app.connectionType)] = @ + 1]
  /\ UNCHANGED server

\* The response of a test-connection request arrives and parses to data:
\* testConnection continues after its awaits.
TestConnectionResponded(endpoint, data) ==
  /\ fetches[endpoint] > 0
  /\ data \in TestConnectionBodies(endpoint)
  /\ fetches' = [fetches EXCEPT ![endpoint] = @ - 1]
  /\ app' = IF data.success
            THEN [app EXCEPT !.connectionStatus = "connected", !.results = data.data]
            ELSE [app EXCEPT !.connectionStatus = "error",
                             !.error = IF data.message # "" THEN Str(data.message)
                                       ELSE Str("Connection failed")]
  /\ UNCHANGED server

\* fetch or response.json() rejects: the catch block of testConnection.
TestConnectionThrew(endpoint, message) ==
  /\ fetches[endpoint] > 0
  /\ fetches' = [fetches EXCEPT ![endpoint] = @ - 1]
  /\ app' = [app EXCEPT !.connectionStatus = "error",
                        !.error = IF message # "" THEN Str(message)
                                  ELSE Str("Failed to connect to backend server")]
  /\ UNCHANGED server

\* The connection type select changes to newType.
handleConnectionTypeChange(newType) ==
  /\ newType # app.connectionType
  /\ app' = [app EXCEPT !.connectionType = newType,
                        !.connectionStatus = "disconnected",
                        !.results = Null,
                        !.error = Null,
                        !.queryType = "sql",
                        !.query = IF newType = "snowflake"
                                  THEN sampleQueries.snowflake.sql
                                  ELSE sampleQueries.eks.sql]
  /\ UNCHANGED <<fetches, server>>

UiNext ==
  \/ testConnection
  \/ \E endpoint \in Endpoints, data \in AllTestConnectionBodies :
       TestConnectionResponded(endpoint, data)
  \/ \E endpoint \in Endpoints, message \in FetchErrors :
       TestConnectionThrew(endpoint, message)
  \/ \E newType \in ConnectionTypes : handleConnectionTypeChange(newType)

UiSpec == Init /\ [][UiNext]_vars

(***************************************************************************)
(* Properties.                                                             *)
(***************************************************************************)
CallCount(op) == Cardinality({ i \in 1..Len(calls) : calls[i].op = op })

Finished == pc = "done"

LastResponse == responses[Len(responses)]

Failed(category) ==
  /\ Len(responses) = 1
  /\ ~LastResponse.body.success
  /\ LastResponse.body.error = category

\* The handler has been handed a connection: it calls executeQuery on it at once.
Acquired == CallCount("execute") > 0

\* C1: in every warehouse route, a request whose createConnection succeeded
\* has called connection.destroy exactly once when its handler has finished,
\* whether executeQuery resolved or rejected; destroy is never called twice,
\* and never without an acquired connection.
C1_ConnectionDestroyedOnce ==
  route \in WarehouseRoutes =>
    /\ CallCount("destroy") <= 1
    /\ CallCount("destroy") = 1 => Acquired /\ calls[Len(calls)].op = "destroy"
    /\ (Finished /\ Acquired) => CallCount("destroy") = 1 /\ connection = "destroyed"

\* A warehouse request whose statement failed on an acquired connection.
C1_Witness ==
  /\ route = "wh/schemas"
  /\ Finished
  /\ Acquired
  /\ Failed("Failed to fetch schemas")
  /\ LastResponse.body.message \in StatementErrors

\* The statements the specification gives as examples of injection.
InjectionExamples ==
  { "DROP TABLE users", "SELECT * FROM x UNION SELECT * FROM y",
    "DELETE FROM accounts WHERE 1=1" }

\* C2: a warehouse /execute request whose query matches one of the injection
\* patterns (the listed examples among them) ends in the Blocked failure and
\* createConnection, like every other backend call, is never made for it.
C2_InjectionBlockedBeforeConnect ==
  ( /\ route = "wh/execute"
    /\ isQueryString(query)
    /\ isSuspicious(query.s) \/ query.s \in InjectionExamples )
  => /\ Finished
     /\ Failed("Query blocked")
     /\ LastResponse.status = 400
     /\ CallCount("createConnection") = 0
     /\ calls = <<>>

\* A blocked request whose query matches the union ... select pattern only
\* in upper case.
C2_Witness ==
  /\ route = "wh/execute"
  /\ query = Str("SELECT * FROM x UNION SELECT * FROM y")
  /\ Failed("Query blocked")

\* The first whitespace-separated token of a text ("" when it has none).
FirstToken(text) ==
  LET at == { i \in 1..Len(text) : ~IsWhiteSpace(CharAt(text, i)) }
      stop == { i \in 1..Len(text) : i > Min(at) /\ IsWhiteSpace(CharAt(text, i)) }
  IN  IF at = {} THEN ""
      ELSE IF stop = {} THEN SubSeq(text, Min(at), Len(text))
      ELSE SubSeq(text, Min(at), Min(stop) - 1)

WhitelistedVerbs ==
  { "get", "describe", "logs", "top", "explain", "api-resources", "api-versions",
    "cluster-info" }

IsKubectlRequest ==
  route = "k8s/execute" /\ effectiveQueryType(queryType) = Str("kubectl")

\* C3: a cluster /execute request with queryType kubectl (given or by
\* default) whose first whitespace-separated token is not whitelisted spawns no
\* kubectl process, and if its query passed the input validation its outcome
\* is the CommandNotAllowed failure; a process is only ever spawned for a
\* kubectl request whose first token is whitelisted, with that token as verb.
C3_WhitelistBeforeSpawn ==
  /\ ( /\ IsKubectlRequest
       /\ query.t = "string" => FirstToken(query.s) \notin WhitelistedVerbs )
     => /\ CallCount("spawn") = 0
        /\ proc = "none"
        /\ isQueryString(query) =>
             Finished /\ Failed("Command not allowed") /\ LastResponse.status = 400
  /\ (CallCount("spawn") > 0 \/ proc # "none")
     => /\ IsKubectlRequest
        /\ isQueryString(query)
        /\ FirstToken(query.s) \in WhitelistedVerbs
        /\ CallCount("spawn") = 1
        /\ calls[1].argv[1] = FirstToken(query.s)

\* A kubectl request with a verb that is not whitelisted, after leading
\* whitespace, rejected.
C3_Witness ==
  /\ IsKubectlRequest
  /\ query = Str("\tdelete pod web-1")
  /\ Failed("Command not allowed")
  /\ CallCount("spawn") = 0

IsBlank(q) == q.t = "string" /\ \A i \in 1..Len(q.s) : IsWhiteSpace(CharAt(q.s, i))

\* C4: for both targets, an /execute request whose query text is empty or
\* only whitespace is rejected with the InvalidInput failure, message 'Query
\* must be a non-empty string', and no backend call is made for it.
C4_BlankQueryRejected ==
  (route \in {"wh/execute", "k8s/execute"} /\ IsBlank(query))
  => /\ Finished
     /\ LastResponse = InvalidQueryResponse
     /\ calls = <<>>

WellFormedResponse(r) ==
  IF r.body.success
  THEN "data" \in DOMAIN r.body /\ DOMAIN r.body \cap {"error"} = {}
  ELSE /\ {"error", "message"} \subseteq DOMAIN r.body
       /\ r.body.error # ""
       /\ r.body.message # ""
       /\ "data" \notin DOMAIN r.body

\* C5: a call to either /execute route is answered exactly once, when its
\* handler finishes and not before, by a success payload or by a failure
\* payload that carries an error category and a message, whatever the
\* backend does; a handler that has not answered yet is waiting for a
\* backend outcome that, when it comes, makes it answer.
C5_ExactlyOneResponse ==
  route \in {"wh/execute", "k8s/execute"} =>
    /\ Len(responses) <= 1
    /\ Finished <=> Len(responses) = 1
    /\ \A i \in 1..Len(responses) : WellFormedResponse(responses[i])
    /\ ~Finished => pc \in {"connecting", "executing", "spawned", "listing"}
    /\ pc = "spawned" <=> (proc = "running")

\* The kubectl process failed to spawn and emitted both error and close: the
\* request has its one failure response.
C5_Witness ==
  /\ route = "k8s/execute"
  /\ proc = "closed"
  /\ Len(responses) = 1
  /\ Failed("Query execution failed")
  /\ LastResponse.body.message = "Failed to execute kubectl: spawn kubectl ENOENT"

Max(S) == CHOOSE x \in S : \A y \in S : x >= y

\* The non-empty lines of a text, its lines being separated by newlines.
LinesOf(text) == SelectSeq(splitString(text, "\n"), IsNonBlank)

\* The whitespace-separated tokens of a line.
TokensOf(line) == SelectSeq(splitWhiteSpace(line), IsNonEmpty)

CellsOf(line) == [j \in 1..Len(TokensOf(line)) |-> Str(TokensOf(line)[j])]

IsPlainText(text) == ~startsWith(trim(text), "{") /\ ~startsWith(trim(text), "[")

\* C6: when a whitelisted native command exits 0 with plain-text stdout, the
\* success payload is, for more than one non-empty line, the table whose
\* columns are the tokens of line 0 and whose rows are the tokens of each later
\* non-empty line, with rowCount the number of those lines; for zero or one
\* non-empty line it is a message with rowCount 0.
C6_PlainTextTable ==
  ( /\ IsKubectlRequest
    /\ proc = "closed"
    /\ Len(responses) = 1
    /\ LastResponse.body.success
    /\ IsPlainText(stdout) )
  => LET lines == LinesOf(trim(stdout))
         data == LastResponse.body.data
     IN  IF Len(lines) > 1
         THEN data = [ columns |-> TokensOf(lines[1]),
                       rows |-> [i \in 1..(Len(lines) - 1) |-> CellsOf(lines[i + 1])],
                       rowCount |-> Len(lines) - 1 ]
         ELSE DOMAIN data = {"message", "rowCount"} /\ data.rowCount = 0

\* C7: formatKubernetesResult of an empty list is the message 'No results
\* found' with rowCount 0; of any other list of objects it is the table whose
\* columns are the keys of the first element in their order, with one row per
\* element in list order, each cell the element's value for the column, and
\* the empty string only for a key the element does not have.
C7_ListNormalized ==
  (envelope # <<>> /\ native.t = "array")
  => IF native.a = <<>>
     THEN envelope[1] = [message |-> "No results found", rowCount |-> 0]
     ELSE LET columns == ObjectKeys(native.a[1])
          IN  envelope[1] =
                [ columns |-> columns,
                  rows |-> [i \in 1..Len(native.a) |->
                              [j \in 1..Len(columns) |->
                                 IF HasKey(native.a[i], columns[j])
                                 THEN Get(native.a[i], columns[j])
                                 ELSE Str("")]],
                  rowCount |-> Len(native.a) ]

IsSqlRequest ==
  route = "k8s/execute" /\ effectiveQueryType(queryType) = Str("sql")

\* The list call the request has made.
ListCallMade ==
  IF Len(calls) >= 2 /\ calls[2].op \in ListCalls THEN calls[2].op ELSE "unsupported"

\* The restart count of a pod's first container, 0 when it has none.
RestartsOf(pod) ==
  LET statuses == Get(Get(pod, "status"), "containerStatuses")
  IN  IF statuses.t = "array" /\ Len(statuses.a) >= 1 /\ HasKey(statuses.a[1], "restartCount")
      THEN Get(statuses.a[1], "restartCount")
      ELSE Num(0)

IsComplete(pod) == HasKey(pod, "metadata") /\ HasKey(pod, "status")

\* C8 (for n >= 1 pods that carry their metadata and status): the query
\* 'SELECT * FROM PODS' for which the client returns n pods yields the table
\* with columns name, namespace, status, created, restarts and n rows in the
\* client's order, the restarts cell of each row being the restart count of
\* the pod's first container, or the number 0 when the pod has none.
C8_PodsTable ==
  ( /\ IsSqlRequest
    /\ Finished
    /\ ListCallMade = "listPodForAllNamespaces"
    /\ listed # <<>>
    /\ Len(listed[1]) >= 1
    /\ \A i \in 1..Len(listed[1]) : IsComplete(listed[1][i]) )
  => /\ LastResponse.body.success
     /\ LET data == LastResponse.body.data
            pods == listed[1]
        IN  /\ "columns" \in DOMAIN data
            /\ data.columns = << "name", "namespace", "status", "created", "restarts" >>
            /\ Len(data.rows) = Len(pods)
            /\ \A i \in 1..Len(pods) :
                 /\ data.rows[i][1] = Get(Get(pods[i], "metadata"), "name")
                 /\ data.rows[i][5] = RestartsOf(pods[i])

\* C9: every table the cluster /execute route returns for a resource query
\* has, in every row, as many cells as it has columns, and its rowCount is the
\* number of its rows.
C9_TabularShape ==
  ( /\ IsSqlRequest
    /\ Len(responses) = 1
    /\ LastResponse.body.success
    /\ "columns" \in DOMAIN LastResponse.body.data )
  => LET data == LastResponse.body.data
     IN  /\ data.rowCount = Len(data.rows)
         /\ \A i \in 1..Len(data.rows) : Len(data.rows[i]) = Len(data.columns)

\* A table of two services, one of them without a cluster IP and without ports.
C9_Witness ==
  /\ IsSqlRequest
  /\ ListCallMade = "listServiceForAllNamespaces"
  /\ Len(responses) = 1
  /\ LastResponse.body.success
  /\ "columns" \in DOMAIN LastResponse.body.data
  /\ Len(LastResponse.body.data.rows) = 2
  /\ LastResponse.body.data.rows[2][4] = Str("")
  /\ LastResponse.body.data.rows[2][5] = Str("N/A")

LowerOf == [c \in {CharAt(UpperLetters, i) : i \in 1..Len(UpperLetters)} |->
              CharAt(LowerLetters, CHOOSE i \in 1..Len(UpperLetters) : CharAt(UpperLetters, i) = c)]

\* A text with its letters in lower case.
RECURSIVE FoldCase(_)
FoldCase(s) ==
  IF Len(s) <= 1 THEN (IF s \in DOMAIN LowerOf THEN LowerOf[s] ELSE s)
  ELSE FoldCase(SubSeq(s, 1, Len(s) \div 2)) \o FoldCase(SubSeq(s, (Len(s) \div 2) + 1, Len(s)))

\* A text without its leading and trailing whitespace.
Strip(s) ==
  LET at == { i \in 1..Len(s) : ~IsWhiteSpace(CharAt(s, i)) }
  IN  IF at = {} THEN "" ELSE SubSeq(s, Min(at), Max(at))

PhraseOf(call) ==
  CASE call = "listPodForAllNamespaces" -> "select * from pods"
    [] call = "listNode" -> "select * from nodes"
    [] call = "listDeploymentForAllNamespaces" -> "select * from deployments"
    [] call = "listServiceForAllNamespaces" -> "select * from services"

BeginsWithPhrase(text, call) ==
  LET t == Strip(text)
  IN  /\ Len(t) >= Len(PhraseOf(call))
      /\ FoldCase(SubSeq(t, 1, Len(PhraseOf(call)))) = PhraseOf(call)

KubeClientFailed ==
  Len(calls) = 1 /\ Len(responses) = 1 /\ LastResponse.body.message \in KubeInitErrors

\* C10: the list call of a resource query depends only on the statement up to
\* letter case and surrounding whitespace: a statement that begins, so read,
\* with 'select * from <resource>' makes that resource's list call whatever
\* follows the phrase, any other statement is rejected without a list call,
\* and every statement equal to it up to case and padding gets the same call
\* or the same rejection.
C10_CallUpToCaseAndPadding ==
  (IsSqlRequest /\ isQueryString(query) /\ ~KubeClientFailed)
  => /\ \A c \in ListCalls : BeginsWithPhrase(query.s, c) => ListCallMade = c
     /\ (\A c \in ListCalls : ~BeginsWithPhrase(query.s, c))
          => /\ ListCallMade = "unsupported"
             /\ CallCount("initializeKubeClient") = Len(calls)
             /\ Failed("Query execution failed")
             /\ LastResponse.body.message = UnsupportedMessage
     /\ LET folded == FoldCase(Strip(query.s))
            made == ListCallMade
        IN  \A q \in SqlQueries :
              folded = FoldCase(Strip(q.s)) => listCallFor(q.s) = made

\* A lower-case statement with leading whitespace and a trailing clause waits
\* for the pods list call.
C10_Witness ==
  /\ IsSqlRequest
  /\ query = Str("\n\tselect * from pods WHERE ns = 'x'")
  /\ pc = "listing"
  /\ ListCallMade = "listPodForAllNamespaces"

\* The failure kind a response reports: its error category.
KindOf(r) == r.body.error

\* The kinds the cluster /execute route reports when the backend fails to
\* execute a request: a list call that rejects, a kubectl that exits non-zero.
BackendExecutionFailureKinds ==
  { KindOf(ClusterCatchResponse(query, msg)) : msg \in ListErrors }
    \cup { KindOf(ClusterOutcomeResponse(query, queryType, kubectlOnClose(1, "", err), 0)) :
             err \in StderrChunks }

\* C11: a cluster resource query whose trimmed, upper-cased text does not
\* start with a supported phrase ends in a failure whose message names the
\* supported grammar and whose kind is distinct from the kind reported for a
\* backend execution failure, and no list call is made for it.
C11_UnsupportedQueryKind ==
  ( /\ IsSqlRequest
    /\ isQueryString(query)
    /\ ~KubeClientFailed
    /\ \A c \in ListCalls : ~BeginsWithPhrase(query.s, c) )
  => /\ Finished
     /\ Len(responses) = 1
     /\ ~LastResponse.body.success
     /\ LastResponse.body.message = UnsupportedMessage
     /\ \A i \in 1..Len(calls) : calls[i].op \notin ListCalls
     /\ KindOf(LastResponse) \notin BackendExecutionFailureKinds

IsExecuteRoute == route \in {"wh/execute", "k8s/execute"}

\* The first min(n, length) characters of a text.
PrefixOf(text, n) == SubSeq(text, 1, IF Len(text) < n THEN Len(text) ELSE n)

\* The payload echoes the request's query text, cut to its first 200 characters.
EchoesQuery(r) ==
  /\ "query" \in DOMAIN r.body
  /\ r.body.query = PrefixOf(query.s, 200)
  /\ Len(r.body.query) <= 200

\* C12 as stated: every success payload and every failure payload of both
\* /execute routes echoes the query text, as its prefix of min(200, length)
\* characters.
C12_EveryPayloadEchoes ==
  (IsExecuteRoute /\ isQueryString(query))
  => \A i \in 1..Len(responses) : EchoesQuery(responses[i])

\* C12, amended: the success payloads and the failure payloads of the catch
\* blocks (status 500) of both /execute routes echo the query text as its
\* prefix of min(200, length) characters; the rejections answered before the
\* try block (status 400: Invalid query, Query blocked, Command not allowed)
\* carry no query field; no payload carries more than 200 characters of it.
C12_EchoBounded ==
  IsExecuteRoute =>
    \A i \in 1..Len(responses) :
      LET r == responses[i]
      IN  /\ r.status \in {200, 400, 500}
          /\ r.status \in {200, 500} => query.t = "string" /\ EchoesQuery(r)
          /\ r.status = 400 => "query" \notin DOMAIN r.body
          /\ r.body.success <=> r.status = 200

\* A statement longer than 200 characters failed in the warehouse: the
\* payload carries its first 200 characters.
C12_Witness ==
  /\ route = "wh/execute"
  /\ query.t = "string"
  /\ Len(query.s) > 200
  /\ Failed("Query execution failed")
  /\ Len(LastResponse.body.query) = 200
  /\ LastResponse.body.query # query.s

IsScalar(v) == v.t \in {"string", "number"}

\* The table of the canonical result: columns, rows of scalar cells, rowCount.
IsTabularResult(data) ==
  /\ DOMAIN data = {"columns", "rows", "rowCount"}
  /\ \A i \in 1..Len(data.rows) :
       /\ DOMAIN data.rows[i] = 1..Len(data.rows[i])
       /\ \A j \in 1..Len(data.rows[i]) : IsScalar(data.rows[i][j])

\* The message of the canonical result.
IsMessageResult(data) ==
  /\ DOMAIN data = {"message", "rowCount"}
  /\ data.rowCount \in {0, 1}

\* The success data is what formatKubernetesResult makes of some native result.
IsNormalizerOutput(data) == IsTabularResult(data) \/ IsMessageResult(data)

\* C13: in every branch of both /execute routes (warehouse statement,
\* cluster native command, cluster resource query) the data of a success
\* payload has the shape the result normalizer produces: either columns, rows
\* of scalar cells and rowCount, or a message with rowCount 0 or 1, and
\* nothing else.
C13_SuccessDataNormalized ==
  IsExecuteRoute =>
    \A i \in 1..Len(responses) :
      responses[i].body.success => IsNormalizerOutput(responses[i].body.data)

\* The time the handler was handed its connection and submitted the statement.
AcquiredAt == calls[CHOOSE i \in 1..Len(calls) : calls[i].op = "execute"].at

\* C14: on the warehouse /execute route the elapsed-time measurement starts
\* after the connection has been acquired and stops when the statement
\* completes: the executionTime of a success payload is the time from the
\* acquisition to the completion and never includes the time createConnection
\* took.
C14_ElapsedExcludesConnect ==
  ( /\ route = "wh/execute"
    /\ Len(responses) = 1
    /\ LastResponse.body.success )
  => LastResponse.body.executionTime = Milliseconds(now - AcquiredAt)

\* The cell of a string field: the empty string when the field is absent.
TextOr(v) == IF v.t = "undefined" THEN Str("") ELSE v

\* The cell of a count: the number 0 when the count is absent.
CountOr(v) == IF v.t = "undefined" THEN Num(0) ELSE v

\* The ports cell of a service: 'N/A' when it has no ports.
PortsOr(ports) ==
  IF ports.t = "array" /\ Len(ports.a) >= 1
  THEN Str(join([i \in 1..Len(ports.a) |-> portText(ports.a[i])], ", "))
  ELSE Str("N/A")

\* The status cell of a node: 'Unknown' when it has no Ready condition.
ReadyOr(conditions) ==
  IF conditions.t = "array" /\ findReady(conditions.a) # Undef
  THEN TextOr(Get(findReady(conditions.a), "status"))
  ELSE Str("Unknown")

\* The row an object yields when every absent field or container takes its
\* default.
DefaultedRow(call, item) ==
  LET metadata == Get(item, "metadata")
      status == Get(item, "status")
      spec == Get(item, "spec")
      nodeInfo == Get(status, "nodeInfo")
  IN  CASE call = "listPodForAllNamespaces" ->
             << TextOr(Get(metadata, "name")), TextOr(Get(metadata, "namespace")),
                TextOr(Get(status, "phase")), TextOr(Get(metadata, "creationTimestamp")),
                CountOr(OptGet(OptFirst(Get(status, "containerStatuses")), "restartCount")) >>
        [] call = "listDeploymentForAllNamespaces" ->
             << TextOr(Get(metadata, "name")), TextOr(Get(metadata, "namespace")),
                CountOr(Get(status, "replicas")), CountOr(Get(status, "readyReplicas")),
                CountOr(Get(status, "availableReplicas")),
                TextOr(Get(metadata, "creationTimestamp")) >>
        [] call = "listServiceForAllNamespaces" ->
             << TextOr(Get(metadata, "name")), TextOr(Get(metadata, "namespace")),
                TextOr(Get(spec, "type")), TextOr(Get(spec, "clusterIP")),
                PortsOr(Get(spec, "ports")) >>
        [] call = "listNode" ->
             << TextOr(Get(metadata, "name")), ReadyOr(Get(status, "conditions")),
                TextOr(Get(nodeInfo, "kubeletVersion")), TextOr(Get(nodeInfo, "osImage")),
                TextOr(Get(nodeInfo, "architecture")),
                TextOr(Get(metadata, "creationTimestamp")) >>

\* C15: the translator never fails on a partial object: whatever projected
\* field or nested container (status, conditions, nodeInfo, spec,
\* containerStatuses, ports) the listed objects lack, the request succeeds with
\* one row per object, an absent count being 0, an absent string '', the
\* status of a node without a Ready condition 'Unknown' and the ports of a
\* service without ports 'N/A'.
C15_PartialObjectsYieldRows ==
  ( /\ IsSqlRequest
    /\ Finished
    /\ listed # <<>>
    /\ Len(listed[1]) >= 1 )
  => /\ LastResponse.body.success
     /\ "rows" \in DOMAIN LastResponse.body.data
     /\ LastResponse.body.data.rows =
          [i \in 1..Len(listed[1]) |-> DefaultedRow(ListCallMade, listed[1][i])]

\* The failure the route reports for a kubectl that exits with a non-zero code
\* after the output buffered so far.
NonZeroExitFailure ==
  ClusterOutcomeResponse(query, queryType, kubectlOnClose(1, stdout, stderr), 0)

\* The request was answered with the failure of a kubectl that could not be
\* spawned.
SpawnFailureReported ==
  /\ Len(responses) = 1
  /\ \E msg \in SpawnErrors : LastResponse = ClusterCatchResponse(query, kubectlOnError(msg).msg)

\* C16: for a whitelisted native command the result is produced only after
\* the process has closed or failed to spawn, from the whole of the buffered
\* output; a spawn failure and a non-zero exit each surface as exactly one
\* failure, also when the process emits both error and close, and the
\* failure of the one differs in kind from the failure of the other.
C16_SpawnAndExitFailures ==
  (IsKubectlRequest /\ proc # "none")
  => /\ proc = "running" => responses = <<>>
     /\ proc \in {"errored", "closed"} => Len(responses) = 1
     /\ (proc = "closed" /\ LastResponse.body.success)
          => LastResponse.body.data
               = formatKubernetesResult(kubectlOnClose(0, stdout, stderr).v)
     /\ proc = "errored" => SpawnFailureReported
     /\ SpawnFailureReported
          => /\ ~LastResponse.body.success
             /\ KindOf(LastResponse) # KindOf(NonZeroExitFailure)

\* The data a successful test-connection for a connection type answers with.
ProbeDataOf(connectionType) ==
  { body.data : body \in { b \in TestConnectionBodies(testEndpoint(connectionType)) :
                             b.success } }

\* C17: in the editor, under any interleaving of testConnection,
\* handleConnectionTypeChange and the arrival of test-connection responses,
\* connectionStatus is 'connected', and results holds probe data, only for a
\* test-connection of the connection type that is selected: the response of a
\* request started for the other type neither moves the status to 'connected'
\* nor repopulates results.
C17_ConnectedOnlyForSelectedType ==
  /\ app.connectionStatus = "connected" => app.results \in ProbeDataOf(app.connectionType)
  /\ app.results # Null => app.results \in ProbeDataOf(app.connectionType)

=============================================================================
